---- MODULE Spec2Model ----
(***************************************************************************)
(* Model of aslam/common/channel-serialization.h: the payload codec for    *)
(* raw-pointer data and Eigen matrices (to an owned buffer and to a        *)
(* string) and the raw scalar codec.                                       *)
(*                                                                         *)
(* Numbers.  size_t (64 bit) and uint32_t values are carried by their      *)
(* two's-complement representative: the integer r stands for r mod 2^64    *)
(* (resp. r mod 2^32).  Sums and products of representatives represent the *)
(* wrapped sums and products, and two values are equal exactly when their  *)
(* representatives are, as long as every representative stays far below    *)
(* 2^31 in magnitude, which the bounds guarantee.  A negative              *)
(* representative is a value of at least 2^63 (resp. 2^31): "huge".        *)
(*                                                                         *)
(* Calls.  Every operation works on its arguments only, so an encode is    *)
(* applied to the freshly constructed program state (pc = "idle") and a    *)
(* decode to whatever an encode left behind (pc = "ready").  The matrix    *)
(* decode is taken in its three sequential steps: validation, resize,      *)
(* size check and copy.                                                    *)
(***************************************************************************)
EXTENDS Integers, Sequences, FiniteSets, TLC

VARIABLES pc, result, failedAt, heap, buffer, totalSize, str, dst, out, enc, dec

vars == <<pc, result, failedAt, heap, buffer, totalSize, str, dst, out, enc, dec>>

----------------------------------------------------------------------------
(* Bounds of the model. *)
MaxDim == 2
MaxChannels == 3
MaxSeed == 1

(* Program constants. *)
Dynamic == -1
NULL == 0
HeaderSize == 16
PointerSize == 8
Indeterminate == 256

Scalars == {"uint8", "int8", "int32"}

SizeOf(sc) == CASE sc = "uint8" -> 1 [] sc = "int8" -> 1 [] sc = "int32" -> 4

(* cv::DataType<SCALAR>::depth: CV_8U = 0, CV_8S = 1, CV_32S = 4. *)
Depth(sc) == CASE sc = "uint8" -> 0 [] sc = "int8" -> 1 [] sc = "int32" -> 4

(* The bytes a caller's array of n bytes holds. *)
Pattern(seed, n) == [i \in 1..n |-> (seed * 16 + i) % 256]

(* Freshly allocated, not yet written storage of n bytes. *)
Fresh(n) == [i \in 1..n |-> Indeterminate]

----------------------------------------------------------------------------
(* Header codec. *)

U32Bytes(v) ==
  << v % 256, (v \div 256) % 256, (v \div 65536) % 256, (v \div 16777216) % 256 >>

U32FromBytes(b) ==
  b[1] + 256 * b[2] + 65536 * b[3]
       + 16777216 * (IF b[4] >= 128 THEN b[4] - 256 ELSE b[4])

HeaderBytes(h) ==
  U32Bytes(h.rows) \o U32Bytes(h.cols) \o U32Bytes(h.depth) \o U32Bytes(h.channels)

(* HeaderInformation::serializeToBuffer(buffer, offset): the four fields in *)
(* order at offset. *)
HeaderSerialize(bytes, offset, h) ==
  [i \in 1..Len(bytes) |->
     IF offset < i /\ i <= offset + HeaderSize
       THEN HeaderBytes(h)[i - offset] ELSE bytes[i]]

(* HeaderInformation::deSerializeFromBuffer(buffer, offset). *)
HeaderDeserialize(bytes, offset) ==
  [rows     |-> U32FromBytes(SubSeq(bytes, offset + 1, offset + 4)),
   cols     |-> U32FromBytes(SubSeq(bytes, offset + 5, offset + 8)),
   depth    |-> U32FromBytes(SubSeq(bytes, offset + 9, offset + 12)),
   channels |-> U32FromBytes(SubSeq(bytes, offset + 13, offset + 16))]

MakeHeaderInformation(sc, rows, cols, channels) ==
  [rows |-> rows, cols |-> cols, depth |-> Depth(sc), channels |-> channels]

NoHeader == [rows |-> 0, cols |-> 0, depth |-> 0, channels |-> 0]

----------------------------------------------------------------------------
(* Pieces of the raw-pointer encoders. *)

(* Mutant: the channel count left out of the product. *)
MatrixSizeOneChannel(sc, rows, cols, channels) == SizeOf(sc) * rows * cols

(* size_t matrixSize = sizeof(SCALAR) * rows * cols * channels *)
MatrixSize(sc, rows, cols, channels) == SizeOf(sc) * rows * cols * channels

TotalSize(sc, rows, cols, channels) ==
  MatrixSize(sc, rows, cols, channels) + HeaderSize

(* memcpy(dest + offset, src, n) *)
Memcpy(dest, offset, src, n) ==
  [i \in 1..Len(dest) |->
     IF offset < i /\ i <= offset + n THEN src[i - offset] ELSE dest[i]]

(* std::string::resize(n) *)
StringResize(s, n) == [i \in 1..n |-> IF i <= Len(s) THEN s[i] ELSE 0]

(* The fatal checks at the head of serializeToString: the name of the one   *)
(* that fails, "" when all pass. *)
StringEncodeCheck(rows, cols, channels) ==
  IF rows < 0 THEN "rows_ge_0"
  ELSE IF cols < 0 THEN "cols_ge_0"
  ELSE ""

(* The fatal checks at the head of the raw-pointer serializeToBuffer: the   *)
(* code has none on rows, cols or channels. *)
BufferEncodeCheck(rows, cols, channels) == ""

(* Mutant: the failure path nulls the pointer without delete[]. *)
LeakOnHeaderFailure(h, b) == [heap |-> h, buffer |-> NULL]

(* delete[] *buffer; *buffer = nullptr; *)
ReleaseOnHeaderFailure(h, b) ==
  [heap   |-> [h EXCEPT ![b].frees = @ + 1],
   buffer |-> NULL]

(* serializeToString<SCALAR>(matrixData, rows, cols, channels, string) *)
StringEncode(sc, data, rows, cols, channels, hdrOk, s) ==
  LET chk         == StringEncodeCheck(rows, cols, channels)
      header     == MakeHeaderInformation(sc, rows, cols, channels)
      matrixSize == MatrixSize(sc, rows, cols, channels)
      total      == TotalSize(sc, rows, cols, channels)
      resized    == StringResize(s, total)
  IN  IF chk # "" THEN [result |-> "fatal", failedAt |-> chk, str |-> s]
      ELSE IF total = 0
        THEN [result |-> "fatal", failedAt |-> "total_gt_0", str |-> s]
      ELSE IF total < 0
        \* resize beyond max_size(): std::length_error
        THEN [result |-> "throw", failedAt |-> "resize", str |-> s]
      ELSE IF ~hdrOk
        THEN [result |-> "false", failedAt |-> "header", str |-> resized]
      ELSE IF total < HeaderSize
        \* the header overruns the string and memcpy copies a huge count
        THEN [result |-> "crash", failedAt |-> "memcpy", str |-> resized]
      ELSE [result |-> "true", failedAt |-> "",
            str |-> Memcpy(HeaderSerialize(resized, 0, header),
                           HeaderSize, data, matrixSize)]

(* serializeToBuffer<SCALAR>(matrixData, rows, cols, channels, buffer,      *)
(* totalSize) *)
BufferEncode(sc, data, rows, cols, channels, hdrOk, h, b) ==
  LET chk         == BufferEncodeCheck(rows, cols, channels)
      header     == MakeHeaderInformation(sc, rows, cols, channels)
      matrixSize == MatrixSize(sc, rows, cols, channels)
      total      == TotalSize(sc, rows, cols, channels)
      addr       == Len(h) + 1
      alloc(bs)  == Append(h, [size |-> total, bytes |-> bs, frees |-> 0])
  IN  IF chk # ""
        THEN [result |-> "fatal", failedAt |-> chk, heap |-> h, buffer |-> b,
              totalSize |-> 0, sizeSet |-> FALSE]
      ELSE IF total < 0
        \* new char[huge]: std::bad_alloc, after *totalSize was assigned
        THEN [result |-> "throw", failedAt |-> "new", heap |-> h, buffer |-> b,
              totalSize |-> total, sizeSet |-> TRUE]
      ELSE IF ~hdrOk
        THEN LET rel == ReleaseOnHeaderFailure(alloc(Fresh(total)), addr)
             IN [result |-> "false", failedAt |-> "header", heap |-> rel.heap,
                 buffer |-> rel.buffer, totalSize |-> total, sizeSet |-> TRUE]
      ELSE IF total < HeaderSize
        THEN [result |-> "crash", failedAt |-> "memcpy",
              heap |-> alloc(Fresh(total)), buffer |-> addr,
              totalSize |-> total, sizeSet |-> TRUE]
      ELSE [result |-> "true", failedAt |-> "",
            heap |-> alloc(Memcpy(HeaderSerialize(Fresh(total), 0, header),
                                  HeaderSize, data, matrixSize)),
            buffer |-> addr, totalSize |-> total, sizeSet |-> TRUE]

----------------------------------------------------------------------------
(* Pieces of the matrix decoder. *)

(* Mutant: no check of the header against the static shape. *)
DecodeValidateNoShape(isNull, h, size, D) ==
  IF size < HeaderSize THEN "size_ge"
  ELSE IF isNull THEN "header"
  ELSE IF h.depth # Depth(D.scalar) THEN "depth"
  ELSE IF h.channels # 1 THEN "channels"
  ELSE ""

(* Mutant: no check of the channel count. *)
DecodeValidateNoChannels(isNull, h, size, D) ==
  IF size < HeaderSize THEN "size_ge"
  ELSE IF isNull THEN "header"
  ELSE IF D.ROWS # Dynamic /\ h.rows # D.ROWS THEN "rows"
  ELSE IF D.COLS # Dynamic /\ h.cols # D.COLS THEN "cols"
  ELSE IF h.depth # Depth(D.scalar) THEN "depth"
  ELSE ""

(* Mutant: no check of the depth tag. *)
DecodeValidateNoDepth(isNull, h, size, D) ==
  IF size < HeaderSize THEN "size_ge"
  ELSE IF isNull THEN "header"
  ELSE IF D.ROWS # Dynamic /\ h.rows # D.ROWS THEN "rows"
  ELSE IF D.COLS # Dynamic /\ h.cols # D.COLS THEN "cols"
  ELSE IF h.channels # 1 THEN "channels"
  ELSE ""

(* The checks of deSerializeFromBuffer up to the channel check, in the      *)
(* code's order: the name of the first that fails, "" when all pass.        *)
(* "header" is the soft failure of the header parse (a null buffer).        *)
DecodeValidate(isNull, h, size, D) ==
  IF size < HeaderSize THEN "size_ge"
  ELSE IF isNull THEN "header"
  ELSE IF D.ROWS # Dynamic /\ h.rows # D.ROWS THEN "rows"
  ELSE IF D.COLS # Dynamic /\ h.cols # D.COLS THEN "cols"
  ELSE IF h.depth # Depth(D.scalar) THEN "depth"
  ELSE IF h.channels # 1 THEN "channels"
  ELSE ""

(* Mutant: rows and cols of the header taken for each other. *)
ResizeTargetSwapped(D, h) ==
  [rows |-> IF D.ROWS = Dynamic THEN h.cols ELSE D.rows,
   cols |-> IF D.COLS = Dynamic THEN h.rows ELSE D.cols]

(* The shape the resize of lines 124-130 asks for: a dynamic dimension      *)
(* takes the header's field, a fixed one is Eigen::NoChange.                *)
ResizeTarget(D, h) ==
  [rows |-> IF D.ROWS = Dynamic THEN h.rows ELSE D.rows,
   cols |-> IF D.COLS = Dynamic THEN h.cols ELSE D.cols]

(* A uint32 of at least 2^31 read as an Eigen::Index. *)
Huge(x) == x < 0

(* Eigen's resize: the storage is reallocated, and the old coefficients    *)
(* lost, exactly when the number of coefficients changes. The storage of a *)
(* matrix with a huge dimension is not enumerated.                         *)
EigenResize(D, t) ==
  LET keep == t.rows * t.cols = D.rows * D.cols
                /\ Huge(t.rows) = Huge(D.rows) /\ Huge(t.cols) = Huge(D.cols)
      n    == IF Huge(t.rows) \/ Huge(t.cols) THEN 0
              ELSE SizeOf(D.scalar) * t.rows * t.cols
  IN  [D EXCEPT !.rows = t.rows, !.cols = t.cols,
                !.data = IF keep THEN D.data ELSE Fresh(n)]

(* How the resize can end: "ok", or "throw" (std::bad_alloc) when the      *)
(* number of coefficients overflows Index or the allocation is refused.    *)
ResizeOutcomes(D, t) ==
  IF D.ROWS # Dynamic /\ D.COLS # Dynamic THEN {"ok"}
  ELSE IF Huge(t.rows) /\ Huge(t.cols) THEN {"throw"}
  ELSE IF (Huge(t.rows) \/ Huge(t.cols)) /\ t.rows # 0 /\ t.cols # 0
    THEN {"ok", "throw"}
  ELSE {"ok"}

(* size_t matrix_size = sizeof(SCALAR) * matrix->rows() * matrix->cols();  *)
(* size_t total_size = matrix_size + header.size();                        *)
DecodeTotalSize(D) == SizeOf(D.scalar) * D.rows * D.cols + HeaderSize

(* Mutant: CHECK_GE in place of CHECK_EQ. *)
TotalSizeCheckAtLeast(size, D) == size >= SizeOf(D.scalar) * D.rows * D.cols + HeaderSize

(* CHECK_EQ(size, total_size) *)
TotalSizeCheck(size, D) == size = DecodeTotalSize(D)

(* Mutant: the payload copied from the start of the input. *)
CopyPayloadFromStart(bytes, offset, n) ==
  [i \in 1..n |-> IF i <= Len(bytes) THEN bytes[i] ELSE Indeterminate]

(* memcpy(matrix->data(), buffer + header.size(), matrix_size): a byte     *)
(* past the end of the input is indeterminate.                             *)
CopyPayload(bytes, offset, n) ==
  [i \in 1..n |-> IF offset + i <= Len(bytes) THEN bytes[offset + i]
                  ELSE Indeterminate]

----------------------------------------------------------------------------
(* Pieces of the raw scalar codec. *)

ScalarValues == {0, 42, 127}

(* The object representation of a value of type SCALAR. *)
ValueBytes(sc, v) == SubSeq(U32Bytes(v), 1, SizeOf(sc))

(* The value *value holds when deSerializeFromBuffer returns. The code     *)
(* copies into &value, the parameter itself, so the pointee keeps what it  *)
(* held.                                                                   *)
ScalarDecodeStore(old, bytes, size) == old

----------------------------------------------------------------------------
(* Inputs. *)

Dims == 0..MaxDim
RawDims == -1..MaxDim
RawChannels == -1..MaxChannels
Seeds == 0..MaxSeed

(* Storage that held something else before the call. *)
OldData(n) == [i \in 1..n |-> 255 - (i % 64)]

(* The ROWS and COLS a destination type is instantiated with. *)
Templates == {Dynamic} \cup (1..MaxDim)

InitialDims(T) == IF T = Dynamic THEN {0, 1} ELSE {T}

DestinationsOf(sc, R, C) ==
  { [scalar |-> sc, ROWS |-> R, COLS |-> C, rows |-> r, cols |-> c,
     data |-> OldData(SizeOf(sc) * r * c)] :
      r \in InitialDims(R), c \in InitialDims(C) }

(* The destination matrices a caller hands to the decoder. *)
Destinations ==
  UNION { DestinationsOf(t[1], t[2], t[3]) :
            t \in Scalars \X Templates \X Templates }

(* The matrices a caller hands to the encoder. *)
Matrices ==
  { [scalar |-> t[1], rows |-> t[2], cols |-> t[3],
     data |-> Pattern(t[4], SizeOf(t[1]) * t[2] * t[3])] :
      t \in Scalars \X Dims \X Dims \X Seeds }

NoMatrix == [scalar |-> "uint8", ROWS |-> Dynamic, COLS |-> Dynamic,
             rows |-> 0, cols |-> 0, data |-> <<>>]

NoEnc == [op |-> "none", scalar |-> "uint8", rows |-> 0, cols |-> 0,
          channels |-> 0, data |-> <<>>, hdrOk |-> TRUE, value |-> 0,
          size |-> 0, result |-> "none"]

NoDec == [op |-> "none", via |-> "none", isNull |-> TRUE, bytes |-> <<>>,
          size |-> 0, header |-> NoHeader, dst0 |-> NoMatrix, out0 |-> 0]

Init ==
  /\ pc = "idle"
  /\ result = "none"
  /\ failedAt = ""
  /\ heap = <<>>
  /\ buffer = NULL
  /\ totalSize = 0
  /\ str = <<>>
  /\ dst = NoMatrix
  /\ out = 0
  /\ enc = NoEnc
  /\ dec = NoDec

(* Where control is after an encode (resp. a decode) that ended with r. A  *)
(* decode leaves the encoded bytes as they were, so nothing new is reached *)
(* by decoding them again.                                                 *)
After(r) == IF r \in {"true", "false"} THEN "ready" ELSE "aborted"

AfterDecode(r) == IF r \in {"true", "false"} THEN "done" ELSE "aborted"

----------------------------------------------------------------------------
(* Encoders. *)

(* The array behind matrixData: as many bytes as the call copies. *)
RawData(sc, rows, cols, channels, seed) ==
  LET n == MatrixSize(sc, rows, cols, channels)
  IN  Pattern(seed, IF n > 0 THEN n ELSE 0)

ApplyStringEncode(op, sc, data, rows, cols, channels, hdrOk) ==
  LET r == StringEncode(sc, data, rows, cols, channels, hdrOk, str)
  IN  /\ enc' = [NoEnc EXCEPT !.op = op, !.scalar = sc, !.rows = rows,
                              !.cols = cols, !.channels = channels,
                              !.data = data, !.hdrOk = hdrOk,
                              !.result = r.result]
      /\ str' = r.str
      /\ result' = r.result
      /\ failedAt' = r.failedAt
      /\ pc' = After(r.result)
      /\ UNCHANGED <<heap, buffer, totalSize, dst, out, dec>>

ApplyBufferEncode(op, sc, data, rows, cols, channels, hdrOk) ==
  LET r == BufferEncode(sc, data, rows, cols, channels, hdrOk, heap, buffer)
  IN  /\ enc' = [NoEnc EXCEPT !.op = op, !.scalar = sc, !.rows = rows,
                              !.cols = cols, !.channels = channels,
                              !.data = data, !.hdrOk = hdrOk,
                              !.result = r.result]
      /\ heap' = r.heap
      /\ buffer' = r.buffer
      /\ totalSize' = IF r.sizeSet THEN r.totalSize ELSE totalSize
      /\ result' = r.result
      /\ failedAt' = r.failedAt
      /\ pc' = After(r.result)
      /\ UNCHANGED <<str, dst, out, dec>>

(* serializeToString<SCALAR>(matrixData, rows, cols, channels, string) *)
SerializeToStringRaw ==
  /\ pc = "idle"
  /\ \E sc \in Scalars, rows \in RawDims, cols \in RawDims,
     channels \in RawChannels, seed \in Seeds, hdrOk \in BOOLEAN :
    ApplyStringEncode("raw_string", sc,
                      RawData(sc, rows, cols, channels, seed),
                      rows, cols, channels, hdrOk)

(* serializeToBuffer<SCALAR>(matrixData, rows, cols, channels, buffer,      *)
(* totalSize) *)
SerializeToBufferRaw ==
  /\ pc = "idle"
  /\ \E sc \in Scalars, rows \in RawDims, cols \in RawDims,
     channels \in RawChannels, seed \in Seeds, hdrOk \in BOOLEAN :
    ApplyBufferEncode("raw_buffer", sc,
                      RawData(sc, rows, cols, channels, seed),
                      rows, cols, channels, hdrOk)

(* Eigen matrices have only one channel. *)
NumChannels == 1

(* serializeToBuffer(const Eigen::Matrix&, buffer, size) *)
SerializeMatrixToBuffer ==
  /\ pc = "idle"
  /\ \E M \in Matrices, hdrOk \in BOOLEAN :
    ApplyBufferEncode("matrix_buffer", M.scalar, M.data, M.rows, M.cols,
                      NumChannels, hdrOk)

(* serializeToString(const Eigen::Matrix&, string) *)
SerializeMatrixToString ==
  /\ pc = "idle"
  /\ \E M \in Matrices, hdrOk \in BOOLEAN :
    ApplyStringEncode("matrix_string", M.scalar, M.data, M.rows, M.cols,
                      NumChannels, hdrOk)

(* serializeToBuffer(const SCALAR& value, buffer, size): the caller sets    *)
(* *size before the call. *)
SerializeScalarToBuffer ==
  /\ pc = "idle"
  /\ \E sc \in Scalars, v \in ScalarValues, n \in {SizeOf(t) : t \in Scalars} :
    /\ enc' = [NoEnc EXCEPT !.op = "scalar_buffer", !.scalar = sc,
                            !.value = v, !.size = n,
                            !.result = IF SizeOf(sc) # n THEN "fatal"
                                       ELSE "true"]
    /\ totalSize' = n
    /\ IF SizeOf(sc) # n
         THEN /\ result' = "fatal"
              /\ failedAt' = "size_eq"
              /\ UNCHANGED <<heap, buffer>>
         ELSE /\ result' = "true"
              /\ failedAt' = ""
              /\ heap' = Append(heap,
                   [size |-> n, frees |-> 0,
                    bytes |-> Memcpy(Fresh(n), 0, ValueBytes(sc, v), n)])
              /\ buffer' = Len(heap) + 1
    /\ pc' = After(result')
    /\ UNCHANGED <<str, dst, out, dec>>

----------------------------------------------------------------------------
(* Matrix decoder. *)

(* Lines 106-122, on the bytes at buffer and the length size. *)
BeginDecode(via, isNull, bytes, size, D) ==
  LET h   == IF ~isNull /\ Len(bytes) >= HeaderSize
               THEN HeaderDeserialize(bytes, 0) ELSE NoHeader
      chk == DecodeValidate(isNull, h, size, D)
  IN  \* the caller's buffer holds the header the call reads
      /\ (size >= HeaderSize /\ ~isNull) => Len(bytes) >= HeaderSize
      /\ dec' = [NoDec EXCEPT !.op = "matrix", !.via = via, !.isNull = isNull,
                              !.bytes = bytes, !.size = size, !.header = h,
                              !.dst0 = D]
      /\ dst' = D
      /\ failedAt' = chk
      /\ IF chk = "" THEN result' = "running" /\ pc' = "resize"
         ELSE IF chk = "header"
           \* LOG(ERROR) << std::string(buffer, size) with a null buffer
           THEN result' \in {"false", "throw", "crash"} /\ pc' = AfterDecode(result')
         ELSE result' = "fatal" /\ pc' = "aborted"
      /\ UNCHANGED <<heap, buffer, totalSize, str, out, enc>>

(* deSerializeFromBuffer(buffer, size, matrix) *)
DeSerializeFromBuffer ==
  /\ pc = "ready"
  /\ \E D \in Destinations, size \in {totalSize - 1, totalSize, totalSize + 1} :
    /\ size >= 0
    /\ BeginDecode("buffer", buffer = NULL,
                   IF buffer = NULL THEN <<>> ELSE heap[buffer].bytes, size, D)

(* The strings a caller hands to the decoder: what the encoder left, one   *)
(* byte shorter, one byte longer. *)
Tampered(s) ==
  {s, s \o <<0>>} \cup (IF Len(s) > 0 THEN {SubSeq(s, 1, Len(s) - 1)} ELSE {})

(* deSerializeFromString(string, matrix) *)
DeSerializeFromString ==
  /\ pc = "ready"
  /\ \E D \in Destinations, s \in Tampered(str) :
    BeginDecode("string", FALSE, s, Len(s), D)

(* Lines 124-130. *)
DecodeResize ==
  /\ pc = "resize"
  /\ LET t == ResizeTarget(dst, dec.header)
     IN \E o \in ResizeOutcomes(dst, t) :
          IF o = "ok"
            THEN /\ dst' = EigenResize(dst, t)
                 /\ pc' = "copy"
                 /\ UNCHANGED <<result, failedAt>>
            ELSE /\ result' = "throw"
                 /\ failedAt' = "resize"
                 /\ pc' = "aborted"
                 /\ UNCHANGED dst
  /\ UNCHANGED <<heap, buffer, totalSize, str, out, enc, dec>>

(* Lines 132-136. *)
DecodeCopy ==
  /\ pc = "copy"
  /\ IF TotalSizeCheck(dec.size, dst)
       THEN /\ dst' = [dst EXCEPT !.data =
                         CopyPayload(dec.bytes, HeaderSize,
                                     DecodeTotalSize(dst) - HeaderSize)]
            /\ result' = "true"
            /\ failedAt' = ""
            /\ pc' = AfterDecode("true")
       ELSE /\ result' = "fatal"
            /\ failedAt' = "total_size"
            /\ pc' = "aborted"
            /\ UNCHANGED dst
  /\ UNCHANGED <<heap, buffer, totalSize, str, out, enc, dec>>

----------------------------------------------------------------------------
(* Raw scalar decoder. *)

(* deSerializeFromBuffer(buffer, size, SCALAR* value) *)
DeSerializeScalarFromBuffer ==
  /\ pc = "ready"
  /\ \E sc \in Scalars, size \in {SizeOf(t) : t \in Scalars},
     old \in ScalarValues :
    LET isNull == buffer = NULL
        bytes  == IF isNull THEN <<>> ELSE heap[buffer].bytes
    IN  \* the caller's buffer holds the size bytes the call reads
        /\ ~isNull => size <= Len(bytes)
        /\ dec' = [NoDec EXCEPT !.op = "scalar", !.via = "buffer",
                                !.isNull = isNull, !.bytes = bytes,
                                !.size = size, !.out0 = old,
                                !.dst0 = [NoMatrix EXCEPT !.scalar = sc]]
        /\ IF size # SizeOf(sc)
             THEN /\ result' = "fatal"
                  /\ failedAt' = "size_eq"
                  /\ out' = old
           ELSE IF isNull \/ size > PointerSize
             \* memcpy from a null source, or past the end of the parameter
             THEN /\ result' = "crash"
                  /\ failedAt' = "memcpy"
                  /\ out' = old
           ELSE /\ result' = "true"
                /\ failedAt' = ""
                /\ out' = ScalarDecodeStore(old, bytes, size)
        /\ pc' = AfterDecode(result')
        /\ UNCHANGED <<heap, buffer, totalSize, str, dst, enc>>

----------------------------------------------------------------------------
Next ==
  \/ SerializeToStringRaw
  \/ SerializeToBufferRaw
  \/ SerializeMatrixToBuffer
  \/ SerializeMatrixToString
  \/ SerializeScalarToBuffer
  \/ DeSerializeFromBuffer
  \/ DeSerializeFromString
  \/ DecodeResize
  \/ DecodeCopy
  \/ DeSerializeScalarFromBuffer

Spec == Init /\ [][Next]_vars

----------------------------------------------------------------------------
(* Properties. *)

MatrixDecodeEnded == dec.op = "matrix" /\ pc \in {"done", "aborted"}

(* The header of the input passes the decoder's checks against the         *)
(* destination the call was given.                                         *)
HeaderValidates ==
  /\ ~dec.isNull
  /\ dec.size >= HeaderSize
  /\ dec.dst0.ROWS = Dynamic \/ dec.header.rows = dec.dst0.ROWS
  /\ dec.dst0.COLS = Dynamic \/ dec.header.cols = dec.dst0.COLS
  /\ dec.header.depth = Depth(dec.dst0.scalar)
  /\ dec.header.channels = 1

ResolvedRows ==
  IF dec.dst0.ROWS = Dynamic THEN dec.header.rows ELSE dec.dst0.ROWS

ResolvedCols ==
  IF dec.dst0.COLS = Dynamic THEN dec.header.cols ELSE dec.dst0.COLS

(* What the last encode wrote. *)
Encoded ==
  IF enc.op \in {"raw_string", "matrix_string"} THEN str
  ELSE heap[buffer].bytes

(* A matrix was encoded and what the encoder returned was decoded into a   *)
(* destination of the same SCALAR whose fixed dimensions are the matrix's. *)
RoundTripCase ==
  /\ MatrixDecodeEnded
  /\ enc.result = "true"
  /\ \/ enc.op = "matrix_buffer" /\ dec.via = "buffer" /\ dec.size = totalSize
     \/ enc.op = "matrix_string" /\ dec.via = "string" /\ dec.bytes = str
  /\ dec.dst0.scalar = enc.scalar
  /\ dec.dst0.ROWS \in {Dynamic, enc.rows}
  /\ dec.dst0.COLS \in {Dynamic, enc.cols}

(* C1: a matrix encoded to a buffer (or to a string) and decoded from what *)
(* the encoder returned, into a destination of the same SCALAR and         *)
(* compatible static shape, decodes with true and leaves the destination   *)
(* with the rows, cols and element bytes of the matrix.                    *)
C1_MatrixRoundTrip ==
  RoundTripCase =>
    /\ result = "true"
    /\ dst.rows = enc.rows
    /\ dst.cols = enc.cols
    /\ dst.data = enc.data

C1_Witness ==
  /\ RoundTripCase
  /\ result = "true"
  /\ enc.rows = MaxDim /\ enc.cols = MaxDim
  /\ enc.scalar = "int32"
  /\ dec.dst0.ROWS = Dynamic /\ dec.dst0.rows # enc.rows
  /\ dec.via = "string"

(* The scalar raw codec was applied to v and then to the buffer it made.   *)
ScalarRoundTripCase ==
  /\ enc.op = "scalar_buffer" /\ enc.result = "true"
  /\ dec.op = "scalar" /\ pc = "done" /\ result = "true"
  /\ dec.dst0.scalar = enc.scalar
  /\ dec.size = totalSize

(* C2: the raw scalar encode of v followed by the raw scalar decode leaves *)
(* out equal to v, whatever out held before.                               *)
C2_ScalarRoundTrip == ScalarRoundTripCase => out = enc.value

(* C3: a successful raw-pointer encode writes header.size() +               *)
(* sizeof(SCALAR)*rows*cols*channels bytes: the header (rows, cols, depth  *)
(* tag, channels) at offset 0, then a copy of the first                    *)
(* sizeof(SCALAR)*rows*cols*channels bytes of the data.                    *)
C3_EncodedLayout ==
  (enc.op \in {"raw_string", "raw_buffer"} /\ enc.result = "true") =>
    LET n == SizeOf(enc.scalar) * enc.rows * enc.cols * enc.channels
    IN  /\ Len(Encoded) = HeaderSize + n
        /\ enc.op = "raw_buffer" => totalSize = HeaderSize + n
        /\ SubSeq(Encoded, 1, HeaderSize) =
             U32Bytes(enc.rows) \o U32Bytes(enc.cols)
               \o U32Bytes(Depth(enc.scalar)) \o U32Bytes(enc.channels)
        /\ SubSeq(Encoded, HeaderSize + 1, HeaderSize + n) =
             SubSeq(enc.data, 1, n)

C3_Witness ==
  /\ enc.op = "raw_buffer" /\ enc.result = "true"
  /\ enc.scalar = "int32" /\ enc.rows = MaxDim /\ enc.cols = MaxDim
  /\ enc.channels = MaxChannels
  /\ dec.op = "none"

StaticShapeMismatch ==
  \/ dec.dst0.ROWS # Dynamic /\ dec.header.rows # dec.dst0.ROWS
  \/ dec.dst0.COLS # Dynamic /\ dec.header.cols # dec.dst0.COLS

(* C5: a payload whose header rows (cols) differ from the destination's    *)
(* fixed ROWS (COLS) ends in a fatal check, whatever its depth, channels   *)
(* and length, and a fixed dimension is never changed by the decode.       *)
C5_StaticShapeMismatchFatal ==
  dec.op = "matrix" =>
    /\ ( /\ pc \in {"done", "aborted"}
         /\ ~dec.isNull
         /\ Len(dec.bytes) >= HeaderSize
         /\ StaticShapeMismatch )
       => result = "fatal"
    /\ dec.dst0.ROWS # Dynamic => dst.rows = dec.dst0.ROWS
    /\ dec.dst0.COLS # Dynamic => dst.cols = dec.dst0.COLS

C5_Witness ==
  /\ MatrixDecodeEnded
  /\ dec.size > HeaderSize
  /\ dec.dst0.ROWS = MaxDim /\ dec.header.rows = 1
  /\ dec.header.depth # Depth(dec.dst0.scalar)
  /\ dec.header.channels = MaxChannels
  /\ result = "fatal" /\ failedAt = "rows"

(* C6: the matrix decode returns true only for a header with channels = 1  *)
(* and the depth tag of the destination's SCALAR; a payload with another   *)
(* channel count or another depth tag ends in a fatal check.               *)
C6_ChannelDepthValidation ==
  MatrixDecodeEnded =>
    /\ result = "true" =>
         dec.header.channels = 1 /\ dec.header.depth = Depth(dst.scalar)
    /\ ( /\ ~dec.isNull
         /\ Len(dec.bytes) >= HeaderSize
         /\ \/ dec.header.channels # 1
            \/ dec.header.depth # Depth(dec.dst0.scalar) )
       => result = "fatal"

C6_Witness ==
  /\ MatrixDecodeEnded
  /\ dec.header.channels = MaxChannels
  /\ dec.header.depth = Depth(dec.dst0.scalar)
  /\ ~StaticShapeMismatch
  /\ result = "fatal" /\ failedAt = "channels"

(* The destination has the header's value in every dynamic dimension and   *)
(* its fixed value in every other.                                         *)
ShapeResolved == dst.rows = ResolvedRows /\ dst.cols = ResolvedCols

(* C7: a successful decode leaves every dynamic dimension of the           *)
(* destination equal to the header's field, whatever the shape was before, *)
(* and the destination has that shape before the element bytes are copied. *)
C7_DynamicShapeDecode ==
  dec.op = "matrix" =>
    /\ (pc = "done" /\ result = "true") => ShapeResolved
    /\ pc = "copy" =>
         /\ ShapeResolved
         /\ dst.data \in {dec.dst0.data, Fresh(Len(dst.data))}

C7_Witness ==
  /\ dec.op = "matrix" /\ pc = "done" /\ result = "true"
  /\ dec.dst0.ROWS = Dynamic /\ dec.dst0.COLS = Dynamic
  /\ dec.dst0.rows = 0 /\ dec.dst0.cols = 0
  /\ dec.header.rows = MaxDim /\ dec.header.cols = 1
  /\ dst.rows = MaxDim /\ dst.cols = 1

(* C8: the raw-pointer serializeToBuffer rejects a negative rows, cols or  *)
(* channels with a fatal check, before it allocates or reports a size      *)
(* (read here on the calls whose header write would succeed).              *)
C8_BufferEncodeRejectsNegative ==
  ( /\ enc.op = "raw_buffer"
    /\ enc.hdrOk
    /\ enc.rows < 0 \/ enc.cols < 0 \/ enc.channels < 0 )
  => /\ enc.result = "fatal"
     /\ heap = <<>>
     /\ buffer = NULL
     /\ totalSize = 0

(* C9: when the header write fails, the raw-pointer serializeToBuffer      *)
(* returns false with the buffer it allocated released exactly once and    *)
(* *buffer null; when it returns true, *buffer is a freshly allocated,     *)
(* live region of exactly *totalSize bytes.                                *)
C9_OwnedBufferCleanup ==
  (enc.op \in {"raw_buffer", "matrix_buffer"}) =>
    /\ (~enc.hdrOk /\ enc.result # "throw") => enc.result = "false"
    /\ enc.result = "false" =>
         /\ buffer = NULL
         /\ Len(heap) = 1
         /\ \A a \in 1..Len(heap) : heap[a].frees = 1
    /\ enc.result = "true" =>
         /\ buffer # NULL
         /\ buffer = Len(heap)
         /\ heap[buffer].frees = 0
         /\ heap[buffer].size = totalSize
         /\ Len(heap[buffer].bytes) = totalSize

C9_Witness ==
  /\ enc.op = "raw_buffer" /\ enc.result = "false" /\ ~enc.hdrOk
  /\ enc.rows = MaxDim /\ enc.cols = MaxDim /\ enc.channels = 1
  /\ dec.op = "none"

(* C10: the destination is changed only after the length, header, shape,   *)
(* depth and channel checks have passed, and its element bytes are written *)
(* only after the total-size check; a decode that fails on shape, depth or *)
(* channels leaves the destination as it was, and one that fails on the    *)
(* total size has already resized the dynamic dimensions.                  *)
C10_ValidationBeforeMutation ==
  dec.op = "matrix" =>
    /\ dst # dec.dst0 => HeaderValidates /\ pc \in {"copy", "done", "aborted"}
    /\ result # "true" =>
         dst.data \in {dec.dst0.data, Fresh(Len(dst.data))}
    /\ (result = "fatal"
          /\ failedAt \in {"size_ge", "rows", "cols", "depth", "channels"})
       => dst = dec.dst0
    /\ (result = "fatal" /\ failedAt = "total_size") => ShapeResolved

C10_Witness ==
  /\ dec.op = "matrix"
  /\ result = "fatal" /\ failedAt = "total_size"
  /\ dec.dst0.ROWS = Dynamic /\ dec.dst0.COLS = Dynamic
  /\ dst.rows # dec.dst0.rows
  /\ dst.rows = dec.header.rows /\ dst.cols = dec.header.cols

====
